---- MODULE Spec2Model ----
(***************************************************************************)
(* Model of the C++ function layout tool (CppParser.py): the signature     *)
(* normaliser, the header/definition matcher, the layout sort key and the  *)
(* block reconstruction done by ClangCppParser.reorder_functions, driven   *)
(* by the command line pipeline of CppParser.main and by                  *)
(* FileProcessor.run_processing of file_processor.py.                      *)
(*                                                                         *)
(* Strings are sequences of tokens: " " is one whitespace character, the   *)
(* punctuation tokens stand for themselves, every other token is a run of  *)
(* word characters (\w+).  A file is a sequence of atoms: atom a is the    *)
(* a-th line of the file first given to the tool; an atom keeps its text   *)
(* and its line terminator when it is moved.                               *)
(***************************************************************************)
EXTENDS Integers, Sequences, FiniteSets, Bags, TLC

VARIABLES
    pc,                 \* position of the run in CppParser.main
    run,                \* number of the current run (the output can be fed back)
    header_cursors,     \* cursors libclang yields for the header (walk_preorder)
    source_cursors,     \* cursors libclang yields for the source file
    nlines,             \* number of lines of the file first given
    kind,               \* kind[a]: how line a starts after strip()
    eof_newline,        \* does the file first given end with a line terminator
    source_text,        \* content of the source file of the current run
    layout_rules,       \* ClangCppParser.layout_rules
    header_functions,   \* dict signature -> FunctionDefinition, in insertion order
    function_order,     \* dict signature -> index
    source_functions,   \* list returned by parse_source_file
    reordered_content,  \* text returned by reorder_functions
    output_file,        \* content written by main
    match_calls,        \* the calls of _find_matching_header_function of the run
    norm_pc,            \* position of the normaliser harness
    norm_a, norm_b,     \* two signature strings
    norm_ra, norm_rb,   \* their normal forms
    norm_rra,           \* the normal form of norm_ra
    params_equal,       \* result of _compare_parameter_lists(norm_a, norm_b)
    layout_config,      \* the layout configuration given to ClangCppParser
    dry_run,            \* the dry_run argument of run_processing
    verbose,            \* args.verbose of file_processor.main
    progress,           \* the values given to update_progress, in order
    log,                \* the messages given to log_func, in order
    printed,            \* the messages log_func of file_processor.main printed
    exit_status         \* <<s>> when file_processor.main has returned s

norm_vars == <<norm_pc, norm_a, norm_b, norm_ra, norm_rb, norm_rra, params_equal>>

shell_vars == <<layout_config, dry_run, verbose, progress, log, printed, exit_status>>

input_vars == <<header_cursors, source_cursors, nlines, kind, eof_newline>>

run_vars == <<pc, run, source_text, layout_rules, header_functions, function_order,
              source_functions, reordered_content, output_file, match_calls>>

vars == <<input_vars, run_vars, norm_vars, shell_vars>>

----------------------------------------------------------------------------
(* Bounds of the model.                                                    *)

MaxLines == 3       \* lines of the source file
MaxDefs == 3        \* function definitions in the source file
MaxDecls == 2       \* function declarations in the header
MaxSigLen == 4      \* tokens of a generated signature string

----------------------------------------------------------------------------
(* Strings as token sequences.                                             *)

Space == {" "}

Punct == {"::", "(", ")", ",", "=", "\"x\"", "~", "==", "*", "&"}

IsWordTok(t) == t \notin Space /\ t \notin Punct

Max2(a, b) == IF a < b THEN b ELSE a

Min2(a, b) == IF a < b THEN a ELSE b

\* the subsequence of s at the indices of the set keep
KeepWhere(s, keep) ==
    LET F[i \in 0..Len(s)] ==
            IF i = 0 THEN <<>>
            ELSE IF i \in keep THEN Append(F[i - 1], s[i]) ELSE F[i - 1]
    IN  F[Len(s)]

\* re.sub(r'\s*P\s*', 'P', s): every whitespace run touching a token p goes
StripAround(s, p) ==
    LET touches(i) ==
            \E j \in 1..Len(s) :
                /\ s[j] = p
                /\ \A k \in (Min2(i, j) + 1)..(Max2(i, j) - 1) : s[k] \in Space
    IN  KeepWhere(s, {i \in 1..Len(s) : ~(s[i] \in Space /\ touches(i))})

\* re.sub(r'\bW\b', '', s): the word w goes where it is a whole word
RemoveWord(s, w) ==
    LET whole(i) ==
            /\ s[i] = w
            /\ (i = 1 \/ ~IsWordTok(s[i - 1]))
            /\ (i = Len(s) \/ ~IsWordTok(s[i + 1]))
    IN  KeepWhere(s, {i \in 1..Len(s) : ~whole(i)})

\* str.strip()
Strip(s) ==
    LET nonsp == {i \in 1..Len(s) : s[i] \notin Space}
    IN  IF nonsp = {} THEN <<>>
        ELSE LET lo == CHOOSE i \in nonsp : \A j \in nonsp : i <= j
                 hi == CHOOSE i \in nonsp : \A j \in nonsp : j <= i
             IN  SubSeq(s, lo, hi)

\* ClangCppParser._normalize_signature
Normalize(signature) ==
    LET n1 == StripAround(signature, "::")
        n2 == StripAround(n1, "(")
        n3 == StripAround(n2, ")")
        n4 == StripAround(n3, ",")
        n5 == RemoveWord(n4, "const")
        n6 == RemoveWord(n5, "volatile")
    IN  Strip(n6)

\* ClangCppParser._extract_parameters: re.search(r'\((.*)\)', signature)
ExtractParameters(signature) ==
    LET opens == {i \in 1..Len(signature) : signature[i] = "("}
        closes == {i \in 1..Len(signature) : signature[i] = ")"}
    IN  IF \E i \in opens : \E j \in closes : i < j
        THEN LET lo == CHOOSE i \in opens : \A k \in opens : i <= k
                 hi == CHOOSE j \in closes : \A k \in closes : k <= j
             IN  SubSeq(signature, lo + 1, hi - 1)
        ELSE <<>>

\* str.split(','): the pieces between the commas
SplitComma(s) ==
    LET F[i \in 0..Len(s)] ==
            IF i = 0 THEN << <<>> >>
            ELSE LET prev == F[i - 1]
                     n == Len(prev)
                 IN  IF s[i] = ","
                     THEN Append(prev, <<>>)
                     ELSE [prev EXCEPT ![n] = Append(prev[n], s[i])]
    IN  F[Len(s)]

\* re.sub(r'\s+\w+$', '', t): a final word run goes with the whitespace before it
DropTrailingName(t) ==
    LET n == Len(t)
        words == {i \in 1..n : \A k \in i..n : IsWordTok(t[k])}
    IN  IF words = {} THEN t
        ELSE LET w == CHOOSE i \in words : \A k \in words : i <= k
                 spaces == {i \in 1..(w - 1) : \A k \in i..(w - 1) : t[k] \in Space}
             IN  IF spaces = {} THEN t
                 ELSE LET sp == CHOOSE i \in spaces : \A k \in spaces : i <= k
                      IN  SubSeq(t, 1, sp - 1)

\* ClangCppParser._are_equivalent_types
AreEquivalentTypes(type1, type2) ==
    LET clean(t) ==
            Strip(DropTrailingName(
                Strip(RemoveWord(Strip(RemoveWord(t, "const")), "volatile"))))
    IN  clean(type1) = clean(type2)

\* ClangCppParser._compare_parameter_lists
CompareParameterLists(params1, params2) ==
    IF params1 = <<>> /\ params2 = <<>> THEN TRUE
    ELSE LET params1_list == IF params1 # <<>> THEN SplitComma(params1) ELSE <<>>
             params2_list == IF params2 # <<>> THEN SplitComma(params2) ELSE <<>>
         IN  /\ Len(params1_list) = Len(params2_list)
             /\ \A i \in 1..Len(params1_list) :
                    AreEquivalentTypes(Strip(params1_list[i]), Strip(params2_list[i]))

----------------------------------------------------------------------------
(* Cursors of libclang and the records built from them.                    *)

None == "None"

FunctionKinds == {"FUNCTION_DECL", "CXX_METHOD", "CONSTRUCTOR", "DESTRUCTOR"}

\* a cursor: what the code reads of a clang.cindex.Cursor.  first and last are
\* the atoms holding the first and the last token of its extent.
MkCursor(k, rtype, ns, cls, spelling, args, access, static, isdef) ==
    [kind |-> k, result_type |-> rtype, namespace |-> ns, class_name |-> cls,
     spelling |-> spelling, arguments |-> args, access_specifier |-> access,
     is_static |-> static, is_definition |-> isdef, in_source |-> TRUE,
     first |-> 1, last |-> 1]

\* ClangCppParser._get_fully_qualified_name
FullyQualifiedName(cursor) ==
    (IF cursor.namespace # None THEN <<cursor.namespace, "::">> ELSE <<>>)
    \o (IF cursor.class_name # None THEN <<cursor.class_name, "::">> ELSE <<>>)
    \o cursor.spelling

\* ','.join(param_types)
JoinComma(parts) ==
    LET F[i \in 0..Len(parts)] ==
            IF i = 0 THEN <<>>
            ELSE IF i = 1 THEN parts[1]
            ELSE F[i - 1] \o <<",">> \o parts[i]
    IN  F[Len(parts)]

\* ClangCppParser.get_function_signature
GetFunctionSignature(cursor) ==
    cursor.result_type \o <<" ">> \o FullyQualifiedName(cursor)
        \o <<"(">> \o JoinComma(cursor.arguments) \o <<")">>

\* FunctionDefinition.__init__
FunctionDefinition(name, signature, line_start, line_end, full_text, access_specifier, class_name, namespace, is_static) ==
    [name |-> name, signature |-> signature, line_start |-> line_start,
     line_end |-> line_end, full_text |-> full_text,
     access_specifier |-> access_specifier, class_name |-> class_name,
     namespace |-> namespace, is_static |-> is_static]

\* a dict is the sequence of its items in insertion order
DictHas(d, k) == \E i \in 1..Len(d) : d[i].key = k

DictGet(d, k) == d[CHOOSE i \in 1..Len(d) : d[i].key = k].value

\* d[k] = v: a key already present keeps its place
DictSet(d, k, v) ==
    IF DictHas(d, k)
    THEN [i \in 1..Len(d) |-> IF d[i].key = k THEN [key |-> k, value |-> v] ELSE d[i]]
    ELSE Append(d, [key |-> k, value |-> v])

\* the cursors parse_header_file keeps: function declarations
IsHeaderDeclaration(cursor) ==
    cursor.kind \in FunctionKinds /\ ~cursor.is_definition

\* ClangCppParser.parse_header_file: the two dicts after the first n cursors.
\* index counts the cursors kept so far.
RECURSIVE ParseHeaderFile(_, _)
ParseHeaderFile(cursors, n) ==
    IF n = 0 THEN [functions |-> <<>>, function_order |-> <<>>, index |-> 0]
    ELSE LET prev == ParseHeaderFile(cursors, n - 1)
             cursor == cursors[n]
             signature == GetFunctionSignature(cursor)
             func_def == FunctionDefinition(cursor.spelling, signature,
                             cursor.first, cursor.last, <<>>,
                             cursor.access_specifier, cursor.class_name,
                             cursor.namespace, cursor.is_static)
         IN  IF ~IsHeaderDeclaration(cursor) THEN prev
             ELSE [functions |-> DictSet(prev.functions, signature, func_def),
                   function_order |-> DictSet(prev.function_order, signature, prev.index),
                   index |-> prev.index + 1]

\* does the entry i of the table match the definition, exactly or by the fallback
EntryMatches(cpp_signature, cpp_name, header_sig, header_func) ==
    \/ Normalize(cpp_signature) = Normalize(header_sig)
    \/ /\ header_func.name = cpp_name
       /\ CompareParameterLists(ExtractParameters(cpp_signature),
                                ExtractParameters(header_sig))

\* ClangCppParser._find_matching_header_function: <<header_sig>>, or <<>> for None
FindMatchingHeaderFunction(cpp_signature, cpp_name, hfunctions) ==
    LET hits == {i \in 1..Len(hfunctions) :
                    EntryMatches(cpp_signature, cpp_name,
                                 hfunctions[i].key, hfunctions[i].value)}
    IN  IF hits = {} THEN <<>>
        ELSE << hfunctions[CHOOSE i \in hits : \A j \in hits : i <= j].key >>

----------------------------------------------------------------------------
(* Text: lines, their kinds, and what libclang finds in a text.            *)

\* how a line starts after strip(): with code, with //, with /*, with
\* nothing, or (star) with the text of a /* */ comment opened on a line above
LineKinds == {"code", "slash", "block", "blank", "star"}

\* every line of the file first given ends with a line terminator, but
\* perhaps the last one
Terminated(a) == a # nlines \/ eof_newline

\* str.splitlines(True)
SplitLines(text) ==
    LET F[i \in 0..Len(text)] ==
            IF i = 0 THEN [done |-> <<>>, cur |-> <<>>]
            ELSE LET prev == F[i - 1]
                     line == Append(prev.cur, text[i])
                 IN  IF Terminated(text[i])
                     THEN [done |-> Append(prev.done, line), cur |-> <<>>]
                     ELSE [done |-> prev.done, cur |-> line]
        last == F[Len(text)]
    IN  IF last.cur = <<>> THEN last.done ELSE Append(last.done, last.cur)

\* ''.join(lines)
JoinLines(lines) ==
    LET F[i \in 0..Len(lines)] ==
            IF i = 0 THEN <<>> ELSE F[i - 1] \o lines[i]
    IN  F[Len(lines)]

\* how line.strip() starts: "slash" for //, "block" for /*, "blank" for nothing
LineKind(line) ==
    LET nb == {i \in 1..Len(line) : kind[line[i]] # "blank"}
    IN  IF nb = {} THEN "blank"
        ELSE kind[line[CHOOSE i \in nb : \A j \in nb : i <= j]]

\* the test of the while loop of parse_source_file
IsCommentOrBlank(line) == LineKind(line) \in {"slash", "block", "blank"}

\* the number (from 1) of the line of text that holds position p
LineOf(text, p) == 1 + Cardinality({q \in 1..(p - 1) : Terminated(text[q])})

\* index.parse + walk_preorder on a text: every place where the first token of
\* a cursor stands, followed by its last token, is that cursor again; the
\* cursors come in document order.  start and end are extent.start.line and
\* extent.end.line.
TranslationUnit(text, cursors) ==
    LET K == Len(cursors)
        F[n \in 0..(Len(text) * K)] ==
            IF n = 0 THEN <<>>
            ELSE LET p == ((n - 1) \div K) + 1
                     k == ((n - 1) % K) + 1
                     ends == {q \in p..Len(text) : text[q] = cursors[k].last}
                 IN  IF text[p] = cursors[k].first /\ ends # {}
                     THEN Append(F[n - 1],
                              [cursor |-> cursors[k],
                               start |-> LineOf(text, p),
                               end |-> LineOf(text,
                                   CHOOSE q \in ends : \A r \in ends : q <= r)])
                     ELSE F[n - 1]
    IN  F[Len(text) * K]

\* the cursors parse_source_file keeps: function definitions of the file itself
IsSourceDefinition(cursor) ==
    cursor.kind \in FunctionKinds /\ cursor.is_definition /\ cursor.in_source

\* the while loop of parse_source_file: the first line (from 0) of the run of
\* comment and blank lines that ends just before start_line
CommentStart(source_lines, start_line) ==
    LET cand == {c \in 0..start_line :
                    \A j \in c..(start_line - 1) : IsCommentOrBlank(source_lines[j + 1])}
    IN  CHOOSE c \in cand : \A d \in cand : c <= d

\* ClangCppParser.parse_source_file: the list after the first n cursors
RECURSIVE ParseSourceFile(_, _, _, _)
ParseSourceFile(tu, n, source_lines, hfunctions) ==
    IF n = 0 THEN <<>>
    ELSE LET functions == ParseSourceFile(tu, n - 1, source_lines, hfunctions)
             cursor == tu[n].cursor
             signature == GetFunctionSignature(cursor)
             found == FindMatchingHeaderFunction(signature, cursor.spelling, hfunctions)
             header_sig == found[1]
             header_func == DictGet(hfunctions, header_sig)
             start_line == tu[n].start - 1
             end_line == tu[n].end - 1
             comment_start == CommentStart(source_lines, start_line)
         IN  IF ~IsSourceDefinition(cursor) THEN functions
             ELSE IF found = <<>> THEN functions
             ELSE IF start_line < 0 \/ end_line >= Len(source_lines) THEN functions
             ELSE Append(functions,
                      FunctionDefinition(cursor.spelling, header_sig,
                          comment_start, end_line,
                          JoinLines(SubSeq(source_lines, comment_start + 1, end_line + 1)),
                          header_func.access_specifier, header_func.class_name,
                          header_func.namespace, header_func.is_static))

\* the calls parse_source_file makes to _find_matching_header_function, one for
\* each definition of the file, with the lines (from 0) of the definition
MatchCalls(tu, hfunctions) ==
    LET defs == KeepWhere(tu, {n \in 1..Len(tu) : IsSourceDefinition(tu[n].cursor)})
    IN  [k \in 1..Len(defs) |->
            [cpp_signature |-> GetFunctionSignature(defs[k].cursor),
             cpp_name |-> defs[k].cursor.spelling,
             qualified_name |-> FullyQualifiedName(defs[k].cursor),
             result |-> FindMatchingHeaderFunction(
                            GetFunctionSignature(defs[k].cursor),
                            defs[k].cursor.spelling, hfunctions),
             start_line |-> defs[k].start - 1,
             end_line |-> defs[k].end - 1]]

----------------------------------------------------------------------------
(* Layout rules and the sort key.                                          *)

\* the name pattern of the default rules: (^~?\w+$|constructor|destructor)
DefaultNamePattern == "(^~?\\w+$|constructor|destructor)"

\* word tokens that hold the text constructor or destructor
CtorDtorWords == {"constructor", "destructor"}

\* re.compile(value).search(func_def.name), for the patterns of the model
PatternSearch(pattern, name) ==
    CASE pattern = DefaultNamePattern ->
            \/ /\ Len(name) >= 1
               /\ LET rest == IF name[1] = "~" THEN Tail(name) ELSE name
                  IN  Len(rest) >= 1 /\ \A i \in 1..Len(rest) : IsWordTok(rest[i])
            \/ \E i \in 1..Len(name) : name[i] \in CtorDtorWords

\* LayoutRule.__init__
LayoutRule(priority, criteria) == [priority |-> priority, criteria |-> criteria]

\* the default rules without the rule of the name pattern
DefaultRulesNoNamePattern ==
    << LayoutRule(10, [access |-> "public"]),
       LayoutRule(20, [access |-> "protected"]),
       LayoutRule(30, [access |-> "private"]),
       LayoutRule(5, [is_static |-> TRUE]) >>

\* the rules _load_layout_rules returns when it does not load a file
DefaultRules ==
    << LayoutRule(10, [access |-> "public"]),
       LayoutRule(20, [access |-> "protected"]),
       LayoutRule(30, [access |-> "private"]),
       LayoutRule(5, [is_static |-> TRUE]),
       LayoutRule(3, [name_pattern |-> DefaultNamePattern]) >>

\* LayoutRule.matches
RuleMatches(rule, func_def) ==
    \A key \in DOMAIN rule.criteria :
        LET value == rule.criteria[key]
        IN  /\ ~(key = "access" /\ func_def.access_specifier # value)
            /\ ~(key = "is_static" /\ func_def.is_static # value)
            /\ ~(key = "class" /\ func_def.class_name # value)
            /\ ~(key = "namespace" /\ func_def.namespace # value)
            /\ ~(key = "name_pattern" /\ ~PatternSearch(value, func_def.name))

\* priority = 1000 in sort_key
SentinelPriority == 1000

\* the loop of sort_key over the rules
RulePriority(func, rules) ==
    LET F[i \in 0..Len(rules)] ==
            IF i = 0 THEN SentinelPriority
            ELSE IF RuleMatches(rules[i], func)
                 THEN Min2(F[i - 1], rules[i].priority)
                 ELSE F[i - 1]
    IN  F[Len(rules)]

\* header_order.get(func.signature, float('inf'))
HeaderOrderOf(func, header_order) ==
    IF DictHas(header_order, func.signature)
    THEN [inf |-> FALSE, n |-> DictGet(header_order, func.signature)]
    ELSE [inf |-> TRUE, n |-> 0]

\* reorder_functions.sort_key
SortKey(func, rules, header_order) ==
    [priority |-> RulePriority(func, rules), order |-> HeaderOrderOf(func, header_order)]

\* a sort key compared by its priority alone
KeyLessPriorityOnly(k1, k2) == k1.priority < k2.priority

\* the order of the tuples (priority, order)
KeyLess(k1, k2) ==
    \/ k1.priority < k2.priority
    \/ /\ k1.priority = k2.priority
       /\ ~k1.order.inf
       /\ (k2.order.inf \/ k1.order.n < k2.order.n)

\* sorted(source_functions, key=sort_key) of the first n functions: a stable sort
RECURSIVE SortedFunctions(_, _, _, _)
SortedFunctions(functions, n, rules, header_order) ==
    IF n = 0 THEN <<>>
    ELSE LET sorted == SortedFunctions(functions, n - 1, rules, header_order)
             x == functions[n]
             kx == SortKey(x, rules, header_order)
             p == Cardinality({i \in 1..Len(sorted) :
                      ~KeyLess(kx, SortKey(sorted[i], rules, header_order))})
         IN  SubSeq(sorted, 1, p) \o <<x>> \o SubSeq(sorted, p + 1, Len(sorted))

----------------------------------------------------------------------------
(* Block reconstruction.                                                   *)

\* function_blocks: the line numbers (from 0) inside a function span
FunctionBlocks(source_functions_) ==
    UNION {f.line_start..f.line_end :
              f \in {source_functions_[k] : k \in 1..Len(source_functions_)}}

\* an element of a tuple of non_function_blocks: a line of text or a line number
StrValue(line) == [is_int |-> FALSE, str |-> line, int |-> 0]

IntValue(n) == [is_int |-> TRUE, str |-> <<>>, int |-> n]

\* the comparison non_function_blocks[0][0] == 0
EqualsZero(v) == v.is_int /\ v.int = 0

\* the loop over the lines without the block left after it
NonFunctionBlocksNoTail(source_lines, function_blocks) ==
    LET F[i \in 0..Len(source_lines)] ==
            IF i = 0 THEN [blocks |-> <<>>, current_block |-> <<>>]
            ELSE LET prev == F[i - 1]
                     cb == prev.current_block
                 IN  IF (i - 1) \in function_blocks
                     THEN IF cb # <<>>
                          THEN [blocks |-> Append(prev.blocks,
                                    <<StrValue(cb[1]), StrValue(cb[Len(cb)]),
                                      JoinLines(cb)>>),
                                current_block |-> <<>>]
                          ELSE prev
                     ELSE [blocks |-> prev.blocks,
                           current_block |-> Append(cb, source_lines[i])]
    IN  F[Len(source_lines)].blocks

\* the loop of reorder_functions over the lines, and the block left after it
NonFunctionBlocks(source_lines, function_blocks) ==
    LET F[i \in 0..Len(source_lines)] ==
            IF i = 0 THEN [blocks |-> <<>>, current_block |-> <<>>]
            ELSE LET prev == F[i - 1]
                     cb == prev.current_block
                 IN  IF (i - 1) \in function_blocks
                     THEN IF cb # <<>>
                          THEN [blocks |-> Append(prev.blocks,
                                    <<StrValue(cb[1]), StrValue(cb[Len(cb)]),
                                      JoinLines(cb)>>),
                                current_block |-> <<>>]
                          ELSE prev
                     ELSE [blocks |-> prev.blocks,
                           current_block |-> Append(cb, source_lines[i])]
        last == F[Len(source_lines)]
        cb == last.current_block
    IN  IF cb # <<>>
        THEN Append(last.blocks,
                 <<IntValue(Len(source_lines) - Len(cb)),
                   IntValue(Len(source_lines) - 1), JoinLines(cb)>>)
        ELSE last.blocks

\* ClangCppParser.reorder_functions
ReorderFunctions(text, source_functions_, header_order, rules) ==
    LET source_lines == SplitLines(text)
        sorted_functions ==
            SortedFunctions(source_functions_, Len(source_functions_), rules, header_order)
        function_blocks == FunctionBlocks(source_functions_)
        non_function_blocks == NonFunctionBlocks(source_lines, function_blocks)
        first_goes_first ==
            non_function_blocks # <<>> /\ EqualsZero(non_function_blocks[1][1])
        head == IF first_goes_first THEN non_function_blocks[1][3] ELSE <<>>
        rest == IF first_goes_first THEN Tail(non_function_blocks)
                ELSE non_function_blocks
    IN  head
        \o JoinLines([i \in 1..Len(sorted_functions) |-> sorted_functions[i].full_text])
        \o JoinLines([i \in 1..Len(rest) |-> rest[i][3]])

----------------------------------------------------------------------------
(* The inputs of a run.                                                    *)

\* functions of the layout runs: a public operator, a private method and a
\* free function
FnEquals == MkCursor("CXX_METHOD", <<"bool">>, None, "A", <<"operator", "==">>,
                     << <<"int">> >>, "public", FALSE, FALSE)

FnMethod == MkCursor("CXX_METHOD", <<"void">>, None, "A", <<"f">>,
                     << <<"int">> >>, "private", FALSE, FALSE)

FnFree == MkCursor("FUNCTION_DECL", <<"void">>, None, None, <<"g">>,
                   <<>>, None, FALSE, FALSE)

LayoutFunctions == {FnEquals, FnMethod, FnFree}

\* the cursor of a declaration of c standing on line i of the header
DeclarationAt(c, i) == [c EXCEPT !.is_definition = FALSE, !.first = i, !.last = i]

\* the cursor of a definition of c whose extent is the lines first..last
DefinitionAt(c, first, last) ==
    [c EXCEPT !.is_definition = TRUE, !.first = first, !.last = last]

\* the sequences of at most n elements of S
SeqsUpTo(S, n) == UNION {[1..k -> S] : k \in 0..n}

\* extents of definitions in a file of n lines: first..last, in document
\* order, no line holding tokens of two definitions
Extents(n, d) ==
    {e \in [1..d -> (1..n) \X (1..n)] :
        /\ \A i \in 1..d : e[i][1] <= e[i][2]
        /\ \A i \in 1..(d - 1) : e[i][2] < e[i + 1][1]}

\* no function is declared twice, or defined twice
Distinct(s) == \A i, j \in 1..Len(s) : i # j => s[i] # s[j]

\* the kinds of the lines of the layout runs
LayoutKinds == {"code", "slash", "blank"}

\* the first and the last line of an extent hold a token of the function:
\* they are code, or start with a closed /* */ comment
ExtentsFitKinds(cursors, kinds) ==
    \A i \in 1..Len(cursors) :
        /\ kinds[cursors[i].first] \in {"code", "block"}
        /\ kinds[cursors[i].last] \in {"code", "block"}

\* the state of a run before it parses anything
RunStart(text) ==
    /\ pc = "start"
    /\ source_text = text
    /\ layout_rules = DefaultRules
    /\ header_functions = <<>>
    /\ function_order = <<>>
    /\ source_functions = <<>>
    /\ reordered_content = <<>>
    /\ output_file = <<>>
    /\ match_calls = <<>>

NormIdle ==
    /\ norm_pc = "off"
    /\ norm_a = <<>> /\ norm_b = <<>>
    /\ norm_ra = <<>> /\ norm_rb = <<>> /\ norm_rra = <<>>
    /\ params_equal = FALSE

\* no layout configuration is given (layout_config=None)
NoConfig ==
    [given |-> FALSE, exists |-> FALSE, valid_json |-> FALSE, has_rules |-> FALSE,
     rules |-> <<>>]

\* the command line of CppParser.main without --config; file_processor is not used
ShellIdle ==
    /\ layout_config = NoConfig
    /\ dry_run = FALSE
    /\ verbose = FALSE
    /\ progress = <<>>
    /\ log = <<>>
    /\ printed = <<>>
    /\ exit_status = <<>>

Init ==
    /\ nlines \in 1..MaxLines
    /\ kind \in [1..nlines -> LayoutKinds]
    /\ eof_newline \in BOOLEAN
    /\ \E h \in SeqsUpTo(LayoutFunctions, MaxDecls) :
           /\ Distinct(h)
           /\ header_cursors = [i \in 1..Len(h) |-> DeclarationAt(h[i], i)]
    /\ \E d \in 0..MaxDefs :
           \E fs \in [1..d -> LayoutFunctions] :
               /\ Distinct(fs)
               /\ \E e \in Extents(nlines, d) :
                      source_cursors =
                          [i \in 1..d |-> DefinitionAt(fs[i], e[i][1], e[i][2])]
    /\ ExtentsFitKinds(source_cursors, kind)
    /\ run = 1
    /\ RunStart([a \in 1..nlines |-> a])
    /\ NormIdle
    /\ ShellIdle

----------------------------------------------------------------------------
(* The run of CppParser.main.                                              *)

\* parser.parse_header_file(args.header) returns
ParseHeader ==
    /\ pc = "start"
    /\ LET r == ParseHeaderFile(header_cursors, Len(header_cursors))
       IN  /\ header_functions' = r.functions
           /\ function_order' = r.function_order
    /\ pc' = "header_parsed"
    /\ UNCHANGED <<run, source_text, layout_rules, source_functions,
                   reordered_content, output_file, match_calls, input_vars, norm_vars, shell_vars>>

\* index.parse raises in parse_header_file: main prints the error, returns 1
ParseHeaderRaises ==
    /\ pc = "start"
    /\ pc' = "error"
    /\ UNCHANGED <<run, source_text, layout_rules, header_functions, function_order,
                   source_functions, reordered_content, output_file, match_calls,
                   input_vars, norm_vars, shell_vars>>

\* parser.parse_source_file(args.source, header_functions) returns; with no
\* function kept, main prints a warning and returns 0
ParseSource ==
    /\ pc = "header_parsed"
    /\ LET source_lines == SplitLines(source_text)
           tu == TranslationUnit(source_text, source_cursors)
       IN  /\ source_functions' =
                  ParseSourceFile(tu, Len(tu), source_lines, header_functions)
           /\ match_calls' = MatchCalls(tu, header_functions)
    /\ pc' = IF source_functions' = <<>> THEN "warned" ELSE "source_parsed"
    /\ UNCHANGED <<run, source_text, layout_rules, header_functions, function_order,
                   reordered_content, output_file, input_vars, norm_vars, shell_vars>>

\* index.parse or open raises in parse_source_file
ParseSourceRaises ==
    /\ pc = "header_parsed"
    /\ pc' = "error"
    /\ UNCHANGED <<run, source_text, layout_rules, header_functions, function_order,
                   source_functions, reordered_content, output_file, match_calls,
                   input_vars, norm_vars, shell_vars>>

\* parser.reorder_functions(args.source, source_functions, function_order)
Reorder ==
    /\ pc = "source_parsed"
    /\ reordered_content' =
           ReorderFunctions(source_text, source_functions, function_order, layout_rules)
    /\ pc' = "reordered"
    /\ UNCHANGED <<run, source_text, layout_rules, header_functions, function_order,
                   source_functions, output_file, match_calls, input_vars, norm_vars, shell_vars>>

\* f.write(reordered_content), return 0
WriteOutput ==
    /\ pc = "reordered"
    /\ output_file' = reordered_content
    /\ pc' = "written"
    /\ UNCHANGED <<run, source_text, layout_rules, header_functions, function_order,
                   source_functions, reordered_content, match_calls, input_vars,
                   norm_vars, shell_vars>>

\* the tool is run again, on the file it wrote and with the same header
Rerun ==
    /\ pc = "written"
    /\ run = 1
    /\ run' = run + 1
    /\ pc' = "start"
    /\ source_text' = output_file
    /\ layout_rules' = DefaultRules
    /\ header_functions' = <<>>
    /\ function_order' = <<>>
    /\ source_functions' = <<>>
    /\ reordered_content' = <<>>
    /\ output_file' = <<>>
    /\ match_calls' = <<>>
    /\ UNCHANGED <<input_vars, norm_vars, shell_vars>>

Next ==
    \/ ParseHeader
    \/ ParseHeaderRaises
    \/ ParseSource
    \/ ParseSourceRaises
    \/ Reorder
    \/ WriteOutput
    \/ Rerun

Spec == Init /\ [][Next]_vars

----------------------------------------------------------------------------
(* Runs that exercise the matcher: many signatures, one line for each      *)
(* definition.                                                             *)

MethodOf(cls, ns, arg) ==
    MkCursor("CXX_METHOD", <<"void">>, ns, cls, <<"f">>, <<arg>>, "public", FALSE, FALSE)

\* void A::f(int), void B::f(int), void ns::A::f(int)
AF == MethodOf("A", None, <<"int">>)

BF == MethodOf("B", None, <<"int">>)

NsAF == MethodOf("A", "ns", <<"int">>)

\* void A::f(const int), void A::f(int *), void A::f(int *const)
AFConst == MethodOf("A", None, <<"const", " ", "int">>)

AFPtr == MethodOf("A", None, <<"int", " ", "*">>)

AFPtrConst == MethodOf("A", None, <<"int", " ", "*", "const">>)

\* a method defined inside the class body of the header
AInline == MkCursor("CXX_METHOD", <<"void">>, None, "A", <<"k">>, <<>>,
                   "public", FALSE, TRUE)

\* a cursor that is no function: a variable
AVariable == MkCursor("VAR_DECL", <<"int">>, None, None, <<"v">>, <<>>, None, FALSE, FALSE)

MatchDeclarations == {AF, BF, AFConst, AFPtr, AFPtrConst, AInline, AVariable}

\* the cursors of the source file: definitions, a declaration repeated in the
\* source file, and a definition that comes from an included file
MatchSourceCursors ==
    {[c EXCEPT !.is_definition = TRUE] : c \in {AF, BF, NsAF, AFPtr}}
    \cup {[AF EXCEPT !.is_definition = FALSE]}
    \cup {[AInline EXCEPT !.in_source = FALSE]}

InitMatch ==
    /\ \E h \in SeqsUpTo(MatchDeclarations, MaxDecls) :
           header_cursors =
               [i \in 1..Len(h) |->
                   [h[i] EXCEPT !.first = i, !.last = i]]
    /\ \E d \in 1..MaxDefs :
           \E cs \in [1..d -> MatchSourceCursors] :
               /\ source_cursors = [i \in 1..d |-> [cs[i] EXCEPT !.first = i, !.last = i]]
               /\ nlines = d
    /\ kind = [a \in 1..nlines |-> "code"]
    /\ eof_newline = TRUE
    /\ run = 1
    /\ RunStart([a \in 1..nlines |-> a])
    /\ NormIdle
    /\ ShellIdle

SpecMatch == InitMatch /\ [][Next]_vars

----------------------------------------------------------------------------
(* The normaliser applied to signature strings.                            *)

\* "void f(const int x)", "void f(int)"
SigConstNamed == <<"void", " ", "f", "(", "const", " ", "int", " ", "x", ")">>

SigPlain == <<"void", " ", "f", "(", "int", ")">>

\* 'int g ( std::string s = "x" )', "int g(std::string)"
SigDefault == <<"int", " ", "g", " ", "(", " ", "std", "::", "string", " ", "s",
                " ", "=", " ", "\"x\"", " ", ")">>

SigString == <<"int", " ", "g", "(", "std", "::", "string", ")">>

\* "volatile int h( int , int )"
SigSpaced == <<"volatile", " ", "int", " ", "h", "(", " ", "int", " ", ",", " ",
               "int", " ", ")">>

NamedSignatures == {SigConstNamed, SigPlain, SigDefault, SigString, SigSpaced}

NormAlphabet == {"const", " ", "(", "int"}

NormInputs == NamedSignatures \cup SeqsUpTo(NormAlphabet, MaxSigLen)

InitNorm ==
    /\ norm_pc = "idle"
    /\ norm_a \in NormInputs
    /\ norm_b \in {SigPlain, SigString}
    /\ norm_ra = <<>> /\ norm_rb = <<>> /\ norm_rra = <<>>
    /\ params_equal = FALSE
    /\ ShellIdle
    /\ header_cursors = <<>>
    /\ source_cursors = <<>>
    /\ nlines = 1
    /\ kind = [a \in 1..nlines |-> "code"]
    /\ eof_newline = TRUE
    /\ run = 1
    /\ pc = "off"
    /\ source_text = <<1>>
    /\ layout_rules = DefaultRules
    /\ header_functions = <<>>
    /\ function_order = <<>>
    /\ source_functions = <<>>
    /\ reordered_content = <<>>
    /\ output_file = <<>>
    /\ match_calls = <<>>

\* _normalize_signature is applied to both strings
NormalizeOnce ==
    /\ norm_pc = "idle"
    /\ norm_ra' = Normalize(norm_a)
    /\ norm_rb' = Normalize(norm_b)
    /\ norm_pc' = "once"
    /\ UNCHANGED <<norm_a, norm_b, norm_rra, params_equal, input_vars, run_vars,
                   shell_vars>>

\* _normalize_signature is applied to the normal form of the first string
NormalizeTwice ==
    /\ norm_pc = "once"
    /\ norm_rra' = Normalize(norm_ra)
    /\ norm_pc' = "twice"
    /\ UNCHANGED <<norm_a, norm_b, norm_ra, norm_rb, params_equal, input_vars,
                   run_vars, shell_vars>>

NextNorm == NormalizeOnce \/ NormalizeTwice

SpecNorm == InitNorm /\ [][NextNorm]_vars

----------------------------------------------------------------------------
(* The comparison of parameter lists applied to parameter strings.         *)

\* "unsigned int", "unsigned long", "unsigned int n", "int x,long y", "int,long"
ParamsUnsignedInt == <<"unsigned", " ", "int">>

ParamsUnsignedLong == <<"unsigned", " ", "long">>

ParamsUnsignedIntNamed == <<"unsigned", " ", "int", " ", "n">>

ParamsTwoNamed == <<"int", " ", "x", ",", "long", " ", "y">>

ParamsTwo == <<"int", ",", "long">>

NamedParameters ==
    {ParamsUnsignedInt, ParamsUnsignedLong, ParamsUnsignedIntNamed, ParamsTwoNamed,
     ParamsTwo, <<"int">>, <<"long">>, <<"const", " ", "int">>, <<>>}

ParamAlphabet == {"unsigned", " ", "int", "x"}

InitParams ==
    /\ norm_pc = "params"
    /\ norm_a \in NamedParameters \cup SeqsUpTo(ParamAlphabet, MaxSigLen)
    /\ norm_b \in NamedParameters
    /\ norm_ra = <<>> /\ norm_rb = <<>> /\ norm_rra = <<>>
    /\ params_equal = FALSE
    /\ ShellIdle
    /\ header_cursors = <<>>
    /\ source_cursors = <<>>
    /\ nlines = 1
    /\ kind = [a \in 1..nlines |-> "code"]
    /\ eof_newline = TRUE
    /\ run = 1
    /\ pc = "off"
    /\ source_text = <<1>>
    /\ layout_rules = DefaultRules
    /\ header_functions = <<>>
    /\ function_order = <<>>
    /\ source_functions = <<>>
    /\ reordered_content = <<>>
    /\ output_file = <<>>
    /\ match_calls = <<>>

\* _compare_parameter_lists is applied to the two strings
CompareParameters ==
    /\ norm_pc = "params"
    /\ params_equal' = CompareParameterLists(norm_a, norm_b)
    /\ norm_pc' = "compared"
    /\ UNCHANGED <<norm_a, norm_b, norm_ra, norm_rb, norm_rra, input_vars, run_vars,
                   shell_vars>>

NextParams == CompareParameters

SpecParams == InitParams /\ [][NextParams]_vars

----------------------------------------------------------------------------
(* Construction of the parser with a layout configuration file.            *)

MaxRules == 2       \* rules of a layout configuration file

\* an element of rules_data["rules"]: a JSON object that may lack a key
RuleEntry(has_priority, has_criteria, priority, criteria) ==
    [has_priority |-> has_priority, has_criteria |-> has_criteria,
     priority |-> priority, criteria |-> criteria]

\* the list comprehension over the first n elements of rules_data["rules"]:
\* rule["priority"] or rule["criteria"] raises KeyError on a missing key
RECURSIVE LoadRules(_, _)
LoadRules(rules, n) ==
    IF n = 0 THEN [raised |-> FALSE, loaded |-> <<>>]
    ELSE LET before == LoadRules(rules, n - 1)
             rule == rules[n]
         IN  IF before.raised \/ ~rule.has_priority \/ ~rule.has_criteria
             THEN [raised |-> TRUE, loaded |-> before.loaded]
             ELSE [raised |-> FALSE,
                   loaded |-> Append(before.loaded,
                                     LayoutRule(rule.priority, rule.criteria))]

\* a loader that keeps the rules read before the exception
LoadLayoutRulesPartial(config_file) ==
    IF config_file.given /\ config_file.exists /\ config_file.valid_json
       /\ config_file.has_rules
    THEN LoadRules(config_file.rules, Len(config_file.rules)).loaded
    ELSE DefaultRules

\* ClangCppParser._load_layout_rules
LoadLayoutRules(config_file) ==
    IF config_file.given /\ config_file.exists
    THEN IF ~config_file.valid_json \/ ~config_file.has_rules
         THEN DefaultRules
         ELSE LET r == LoadRules(config_file.rules, Len(config_file.rules))
              IN  IF r.raised THEN DefaultRules ELSE r.loaded
    ELSE DefaultRules

\* the rules of the configuration files of the model
RuleEntries ==
    { RuleEntry(TRUE, TRUE, 2000, [access |-> "public"]),
      RuleEntry(TRUE, TRUE, 5, [access |-> "public"]),
      RuleEntry(TRUE, TRUE, 0 - 1, [is_static |-> TRUE]),
      RuleEntry(FALSE, TRUE, 0, [access |-> "private"]),
      RuleEntry(TRUE, FALSE, 20, <<>>) }

\* --config names a file that does not exist
MissingConfig == [NoConfig EXCEPT !.given = TRUE]

\* the file is not JSON
InvalidJsonConfig == [MissingConfig EXCEPT !.exists = TRUE]

\* the file is a JSON object without "rules"
NoRulesConfig == [InvalidJsonConfig EXCEPT !.valid_json = TRUE]

\* the file is {"rules": rules}
RulesConfig(rules) == [NoRulesConfig EXCEPT !.has_rules = TRUE, !.rules = rules]

LayoutConfigs ==
    {NoConfig, MissingConfig, InvalidJsonConfig, NoRulesConfig}
    \cup {RulesConfig(rules) : rules \in SeqsUpTo(RuleEntries, MaxRules)}

\* class C { public: void A(); private: static void B(); };
PublicA == MkCursor("CXX_METHOD", <<"void">>, None, "C", <<"A">>, <<>>,
                    "public", FALSE, FALSE)

PrivateStaticB == MkCursor("CXX_METHOD", <<"void">>, None, "C", <<"B">>, <<>>,
                           "private", TRUE, FALSE)

RuleFunctions == {PublicA, PrivateStaticB, FnEquals}

\* main is entered: the parser is not constructed yet; every line of the
\* source file is a definition
InitRules ==
    /\ layout_config \in LayoutConfigs
    /\ \E h \in SeqsUpTo(RuleFunctions, MaxDecls) :
           /\ Distinct(h)
           /\ header_cursors = [i \in 1..Len(h) |-> DeclarationAt(h[i], i)]
    /\ \E d \in 1..MaxDefs :
           \E fs \in [1..d -> RuleFunctions] :
               /\ Distinct(fs)
               /\ source_cursors = [i \in 1..d |-> DefinitionAt(fs[i], i, i)]
               /\ nlines = d
    /\ kind = [a \in 1..nlines |-> "code"]
    /\ eof_newline = TRUE
    /\ run = 1
    /\ pc = "construct"
    /\ source_text = [a \in 1..nlines |-> a]
    /\ layout_rules = <<>>
    /\ header_functions = <<>>
    /\ function_order = <<>>
    /\ source_functions = <<>>
    /\ reordered_content = <<>>
    /\ output_file = <<>>
    /\ match_calls = <<>>
    /\ NormIdle
    /\ dry_run = FALSE
    /\ verbose = FALSE
    /\ progress = <<>>
    /\ log = <<>>
    /\ printed = <<>>
    /\ exit_status = <<>>

\* parser = ClangCppParser(args.config)
Construct ==
    /\ pc = "construct"
    /\ layout_rules' = LoadLayoutRules(layout_config)
    /\ pc' = "start"
    /\ UNCHANGED <<run, source_text, header_functions, function_order,
                   source_functions, reordered_content, output_file, match_calls,
                   input_vars, norm_vars, shell_vars>>

NextRules ==
    \/ Construct
    \/ ParseHeader
    \/ ParseHeaderRaises
    \/ ParseSource
    \/ ParseSourceRaises
    \/ Reorder
    \/ WriteOutput

SpecRules == InitRules /\ [][NextRules]_vars

----------------------------------------------------------------------------
(* FileProcessor.run_processing, called by file_processor.main, beside the *)
(* command line of CppParser.main.                                         *)

\* a message given to log_func; e is the stage whose exception it reports
LogLine(text, e) == [text |-> text, e |-> e]

WarnNoDeclarations == LogLine("Warning: No function declarations found in header file", None)

WarnNoImplementations == LogLine("Warning: No function implementations found in source file", None)

DryRunCompleted == LogLine("Dry run completed. No files were modified.", None)

Successfully == LogLine("Successfully reordered functions in", None)

ErrorProcessing(stage) == LogLine("Error processing files", stage)

\* log_func of file_processor.main prints a message only with --verbose
LogFunc(messages) ==
    /\ log' = log \o messages
    /\ printed' = IF verbose THEN printed \o messages ELSE printed

\* lines 14-35: the source file is read, its metrics are logged, the parser
\* is constructed
FP_ReadSource ==
    /\ pc = "fp_start"
    /\ LogFunc(<< LogLine("Processing header file", None),
                  LogLine("Processing Source Cpp file", None),
                  LogLine("--- Initial Metrics ---", None),
                  LogLine("Characters", None),
                  LogLine("Words", None),
                  LogLine("Lines", None) >>)
    /\ progress' = Append(progress, 10)
    /\ layout_rules' = LoadLayoutRules(layout_config)
    /\ pc' = "fp_header"
    /\ UNCHANGED <<run, source_text, header_functions, function_order,
                   source_functions, reordered_content, output_file, match_calls,
                   input_vars, norm_vars, layout_config, dry_run, verbose,
                   exit_status>>

\* lines 38-46 with a header that has no declaration: 30 is given before the
\* table is looked at
FP_ParseHeaderProgressFirst ==
    /\ pc = "fp_header"
    /\ LET r == ParseHeaderFile(header_cursors, Len(header_cursors))
       IN  /\ header_functions' = r.functions
           /\ function_order' = r.function_order
    /\ progress' = Append(progress, 30)
    /\ IF header_functions' = <<>>
       THEN /\ LogFunc(<< LogLine("Extracting functions from header file...", None),
                          WarnNoDeclarations >>)
            /\ pc' = "fp_returned"
       ELSE /\ LogFunc(<< LogLine("Extracting functions from header file...", None) >>)
            /\ pc' = "fp_source"
    /\ UNCHANGED <<run, source_text, layout_rules, source_functions,
                   reordered_content, output_file, match_calls, input_vars,
                   norm_vars, layout_config, dry_run, verbose, exit_status>>

\* lines 38-46: the header is parsed; without a declaration the run warns
\* and returns
FP_ParseHeader ==
    /\ pc = "fp_header"
    /\ LET r == ParseHeaderFile(header_cursors, Len(header_cursors))
       IN  /\ header_functions' = r.functions
           /\ function_order' = r.function_order
    /\ IF header_functions' = <<>>
       THEN /\ LogFunc(<< LogLine("Extracting functions from header file...", None),
                          WarnNoDeclarations >>)
            /\ progress' = progress
            /\ pc' = "fp_returned"
       ELSE /\ LogFunc(<< LogLine("Extracting functions from header file...", None) >>)
            /\ progress' = Append(progress, 30)
            /\ pc' = "fp_source"
    /\ UNCHANGED <<run, source_text, layout_rules, source_functions,
                   reordered_content, output_file, match_calls, input_vars,
                   norm_vars, layout_config, dry_run, verbose, exit_status>>

\* lines 49-57 without the test of cpp_functions
FP_ParseSourceNoCheck ==
    /\ pc = "fp_source"
    /\ LET source_lines == SplitLines(source_text)
           tu == TranslationUnit(source_text, source_cursors)
       IN  /\ source_functions' =
                  ParseSourceFile(tu, Len(tu), source_lines, header_functions)
           /\ match_calls' = MatchCalls(tu, header_functions)
    /\ LogFunc(<< LogLine("Extracting functions from Source Cpp file...", None) >>)
    /\ progress' = Append(progress, 50)
    /\ pc' = "fp_reorder"
    /\ UNCHANGED <<run, source_text, layout_rules, header_functions, function_order,
                   reordered_content, output_file, input_vars, norm_vars,
                   layout_config, dry_run, verbose, exit_status>>

\* lines 49-57: the source file is parsed; without a matched definition the
\* run warns and returns
FP_ParseSource ==
    /\ pc = "fp_source"
    /\ LET source_lines == SplitLines(source_text)
           tu == TranslationUnit(source_text, source_cursors)
       IN  /\ source_functions' =
                  ParseSourceFile(tu, Len(tu), source_lines, header_functions)
           /\ match_calls' = MatchCalls(tu, header_functions)
    /\ IF source_functions' = <<>>
       THEN /\ LogFunc(<< LogLine("Extracting functions from Source Cpp file...", None),
                          WarnNoImplementations >>)
            /\ progress' = progress
            /\ pc' = "fp_returned"
       ELSE /\ LogFunc(<< LogLine("Extracting functions from Source Cpp file...", None) >>)
            /\ progress' = Append(progress, 50)
            /\ pc' = "fp_reorder"
    /\ UNCHANGED <<run, source_text, layout_rules, header_functions, function_order,
                   reordered_content, output_file, input_vars, norm_vars,
                   layout_config, dry_run, verbose, exit_status>>

\* lines 60-83: the functions are reordered and the metrics compared; in the
\* files of these runs every line is one word, so that a text has as many
\* characters and words as it has lines
FP_Reorder ==
    /\ pc = "fp_reorder"
    /\ reordered_content' =
           ReorderFunctions(source_text, source_functions, function_order, layout_rules)
    /\ LET differs == Len(source_text) # Len(reordered_content')
       IN  LogFunc(<< LogLine("Reordering functions...", None),
                      LogLine("--- Reordered Metrics ---", None),
                      LogLine("Characters", None),
                      LogLine("Words", None),
                      LogLine("Lines", None) >>
                   \o (IF differs
                       THEN << LogLine("Warning: Character count differs", None),
                               LogLine("Warning: Word count differs", None) >>
                       ELSE <<>>))
    /\ progress' = progress \o <<70, 90>>
    /\ pc' = "fp_output"
    /\ UNCHANGED <<run, source_text, layout_rules, header_functions, function_order,
                   source_functions, output_file, match_calls, input_vars, norm_vars,
                   layout_config, dry_run, verbose, exit_status>>

\* lines 85-101: the text is logged (dry run) or written to the output folder
FP_Output ==
    /\ pc = "fp_output"
    /\ IF dry_run
       THEN /\ LogFunc(<< DryRunCompleted, LogLine("reordered_content", None) >>)
            /\ output_file' = output_file
       ELSE /\ output_file' = reordered_content
            /\ LogFunc(<< Successfully >>)
    /\ progress' = Append(progress, 100)
    /\ pc' = "fp_returned"
    /\ UNCHANGED <<run, source_text, layout_rules, header_functions, function_order,
                   source_functions, reordered_content, match_calls, input_vars,
                   norm_vars, layout_config, dry_run, verbose, exit_status>>

\* the messages a stage logs before the call of it that can raise
LoggedBeforeRaise(stage) ==
    CASE stage = "fp_start" -> << LogLine("Processing header file", None),
                                  LogLine("Processing Source Cpp file", None) >>
      [] stage = "fp_header" -> << LogLine("Extracting functions from header file...", None) >>
      [] stage = "fp_source" -> << LogLine("Extracting functions from Source Cpp file...", None) >>
      [] stage = "fp_reorder" -> << LogLine("Reordering functions...", None) >>
      [] OTHER -> <<>>

\* lines 103-106: open, parse_header_file, parse_source_file, reorder_functions,
\* mkdir or write raises; the handler logs the error and run_processing returns
FP_Raises ==
    /\ pc \in {"fp_start", "fp_header", "fp_source", "fp_reorder", "fp_output"}
    /\ pc = "fp_output" => ~dry_run
    /\ LogFunc(LoggedBeforeRaise(pc)
               \o << ErrorProcessing(pc), LogLine("traceback", None) >>)
    /\ pc' = "fp_returned"
    /\ UNCHANGED <<run, source_text, layout_rules, header_functions, function_order,
                   source_functions, reordered_content, output_file, match_calls,
                   input_vars, norm_vars, layout_config, dry_run, verbose, progress,
                   exit_status>>

\* file_processor.main, line 153: return 0
FP_Return ==
    /\ pc = "fp_returned"
    /\ exit_status' = <<0>>
    /\ pc' = "fp_exit"
    /\ UNCHANGED <<run, source_text, layout_rules, header_functions, function_order,
                   source_functions, reordered_content, output_file, match_calls,
                   input_vars, norm_vars, layout_config, dry_run, verbose, progress,
                   log, printed>>

\* the layout configurations of the runs of the two command lines
ShellConfigs ==
    {NoConfig, RulesConfig(<< RuleEntry(TRUE, TRUE, 5, [access |-> "private"]) >>)}

\* one of the two command lines is entered with valid arguments; every line
\* of the source file is a definition, or the file has one line and no
\* definition
InitShell ==
    /\ pc \in {"construct", "fp_start"}
    /\ layout_config \in ShellConfigs
    /\ verbose \in BOOLEAN
    /\ dry_run \in BOOLEAN
    /\ pc = "construct" => (~dry_run /\ ~verbose)
    /\ \E h \in SeqsUpTo(RuleFunctions, MaxDecls) :
           /\ Distinct(h)
           /\ header_cursors = [i \in 1..Len(h) |-> DeclarationAt(h[i], i)]
    /\ \E d \in 0..MaxDefs :
           \E fs \in [1..d -> RuleFunctions] :
               /\ Distinct(fs)
               /\ source_cursors = [i \in 1..d |-> DefinitionAt(fs[i], i, i)]
               /\ nlines = Max2(d, 1)
    /\ kind = [a \in 1..nlines |-> "code"]
    /\ eof_newline = TRUE
    /\ run = 1
    /\ source_text = [a \in 1..nlines |-> a]
    /\ layout_rules = <<>>
    /\ header_functions = <<>>
    /\ function_order = <<>>
    /\ source_functions = <<>>
    /\ reordered_content = <<>>
    /\ output_file = <<>>
    /\ match_calls = <<>>
    /\ NormIdle
    /\ progress = <<>>
    /\ log = <<>>
    /\ printed = <<>>
    /\ exit_status = <<>>

NextShell ==
    \/ Construct
    \/ ParseHeader
    \/ ParseHeaderRaises
    \/ ParseSource
    \/ ParseSourceRaises
    \/ Reorder
    \/ WriteOutput
    \/ FP_ReadSource
    \/ FP_ParseHeader
    \/ FP_ParseSource
    \/ FP_Reorder
    \/ FP_Output
    \/ FP_Raises
    \/ FP_Return

SpecShell == InitShell /\ [][NextShell]_vars

----------------------------------------------------------------------------
(* Runs on files with comments of every kind around the definitions.       *)

\* a line inside a /* */ comment follows the line that opens the comment or
\* another line inside it
CommentsOpened(kinds) ==
    \A i \in 1..Len(kinds) :
        kinds[i] = "star" => (i > 1 /\ kinds[i - 1] \in {"block", "star"})

InitSpans ==
    /\ nlines \in 1..MaxLines
    /\ kind \in [1..nlines -> LineKinds]
    /\ CommentsOpened(kind)
    /\ eof_newline = TRUE
    /\ \E h \in SeqsUpTo(LayoutFunctions, MaxDecls) :
           /\ Distinct(h)
           /\ header_cursors = [i \in 1..Len(h) |-> DeclarationAt(h[i], i)]
    /\ \E d \in 0..MaxDefs :
           \E fs \in [1..d -> LayoutFunctions] :
               /\ Distinct(fs)
               /\ \E e \in Extents(nlines, d) :
                      source_cursors =
                          [i \in 1..d |-> DefinitionAt(fs[i], e[i][1], e[i][2])]
    /\ ExtentsFitKinds(source_cursors, kind)
    /\ run = 1
    /\ pc = "construct"
    /\ source_text = [a \in 1..nlines |-> a]
    /\ layout_rules = <<>>
    /\ header_functions = <<>>
    /\ function_order = <<>>
    /\ source_functions = <<>>
    /\ reordered_content = <<>>
    /\ output_file = <<>>
    /\ match_calls = <<>>
    /\ NormIdle
    /\ ShellIdle

SpecSpans == InitSpans /\ [][NextRules]_vars

----------------------------------------------------------------------------
(* The claims.                                                             *)

\* the multiset of the non-blank lines of a text
NonBlankLines(text) ==
    LET lines == SplitLines(text)
        nb == {i \in 1..Len(lines) : LineKind(lines[i]) # "blank"}
    IN  [l \in {lines[i] : i \in nb} |-> Cardinality({i \in nb : lines[i] = l})]

\* C1: the non-blank lines of the text that reorder_functions returns are, as
\* a multiset, the non-blank lines of the file it was given: no line is
\* created, duplicated or dropped.
C1_PermutationInvariant ==
    pc = "reordered" =>
        NonBlankLines(reordered_content) = NonBlankLines(source_text)

\* C2: a second run, on the output of the first run and with the same header
\* and rules, returns its input: the output of the first run.
C2_Idempotent ==
    (run = 2 /\ pc = "reordered") => reordered_content = source_text

\* the text block stands in text at position p
OccursAt(text, block, p) ==
    /\ p + Len(block) - 1 <= Len(text)
    /\ SubSeq(text, p, p + Len(block) - 1) = block

\* some occurrence of the text a stands before some occurrence of the text b
AppearsBefore(text, a, b) ==
    \E p, q \in 1..Len(text) : p < q /\ OccursAt(text, a, p) /\ OccursAt(text, b, q)

\* the priority of a matched definition, and the index of its declaration
PriorityOf(func) == RulePriority(func, layout_rules)

HeaderIndexOf(func) == DictGet(function_order, func.signature)

\* C3: in the text reorder_functions returns, a matched definition of lower
\* priority stands before one of higher priority, and of two definitions of
\* equal priority the one declared earlier in the header stands first.
C3_OrderCorrect ==
    pc = "reordered" =>
        \A i, j \in 1..Len(source_functions) :
            LET A == source_functions[i]
                B == source_functions[j]
            IN  (\/ PriorityOf(A) < PriorityOf(B)
                 \/ /\ PriorityOf(A) = PriorityOf(B)
                    /\ HeaderIndexOf(A) < HeaderIndexOf(B))
                => AppearsBefore(reordered_content, A.full_text, B.full_text)

\* C3 witness: two matched definitions of equal priority stand in the file
\* against the order of their declarations, and the file has been reordered.
C3_Witness ==
    /\ pc = "reordered"
    /\ \E i, j \in 1..Len(source_functions) :
           /\ i < j
           /\ PriorityOf(source_functions[i]) = PriorityOf(source_functions[j])
           /\ HeaderIndexOf(source_functions[j]) < HeaderIndexOf(source_functions[i])

\* the gap spans of a file: the texts of the maximal runs of lines outside
\* every function span, in file order
GapSpans(lines, function_lines) ==
    LET F[i \in 0..Len(lines)] ==
            IF i = 0 THEN <<>>
            ELSE IF (i - 1) \in function_lines THEN F[i - 1]
            ELSE IF i = 1 \/ (i - 2) \in function_lines
                 THEN Append(F[i - 1], lines[i])
                 ELSE [F[i - 1] EXCEPT ![Len(F[i - 1])] = @ \o lines[i]]
    IN  F[Len(lines)]

\* C4: when the file starts with a gap span, reorder_functions returns that
\* span, then the function spans in sorted order, then the other gap spans
\* in their original order.  (Stated for the files that end with a line
\* terminator, where no two lines are joined.)
C4_FirstGapFirst ==
    (pc = "reordered" /\ eof_newline /\ 0 \notin FunctionBlocks(source_functions)) =>
        LET gaps == GapSpans(SplitLines(source_text), FunctionBlocks(source_functions))
            sorted == SortedFunctions(source_functions, Len(source_functions),
                                      layout_rules, function_order)
        IN  reordered_content =
                gaps[1]
                \o JoinLines([i \in 1..Len(sorted) |-> sorted[i].full_text])
                \o JoinLines(Tail(gaps))

\* the calls of the run that found no declaration, for definitions whose
\* lines no function span holds
UnmatchedCalls ==
    {k \in 1..Len(match_calls) :
        /\ match_calls[k].result = <<>>
        /\ (match_calls[k].start_line..match_calls[k].end_line)
               \cap FunctionBlocks(source_functions) = {}}

GapText(text) ==
    LET lines == SplitLines(text)
        fb == FunctionBlocks(source_functions)
    IN  JoinLines(KeepWhere(lines, {i \in 1..Len(lines) : (i - 1) \notin fb}))

C6_NormalizeIdempotent ==
    norm_pc = "twice" => norm_rra = norm_ra

\* C7: "void f(const int x)" and "void f(int)" have the same normal form, and
\* so have 'int g ( std::string s = "x" )' and "int g(std::string)".
C7_NormalizerEquivalence ==
    (/\ norm_pc = "once"
     /\ <<norm_a, norm_b>> \in {<<SigConstNamed, SigPlain>>, <<SigDefault, SigString>>})
    => norm_ra = norm_rb

\* two declarations of the header, of one class and namespace, whose
\* signatures differ and have the same normal form
HasDuplicateSignature(cursors) ==
    \E i, j \in 1..Len(cursors) :
        /\ i < j
        /\ IsHeaderDeclaration(cursors[i]) /\ IsHeaderDeclaration(cursors[j])
        /\ cursors[i].class_name = cursors[j].class_name
        /\ cursors[i].namespace = cursors[j].namespace
        /\ GetFunctionSignature(cursors[i]) # GetFunctionSignature(cursors[j])
        /\ Normalize(GetFunctionSignature(cursors[i]))
               = Normalize(GetFunctionSignature(cursors[j]))

\* C8: a header with two declarations of one scope whose signatures have the
\* same normal form is rejected: the run does not get past parse_header_file
\* but with an error.
C8_DuplicateRejected ==
    HasDuplicateSignature(header_cursors) => pc \in {"start", "error"}

\* C9: when some declaration of the table has the normal form of the
\* definition's signature, the matcher returns a declaration that has it.
C9_ExactMatchFirst ==
    \A k \in 1..Len(match_calls) :
        LET m == match_calls[k]
        IN  (\E i \in 1..Len(header_functions) :
                Normalize(header_functions[i].key) = Normalize(m.cpp_signature))
            => /\ m.result # <<>>
               /\ Normalize(m.result[1]) = Normalize(m.cpp_signature)

\* the qualified name of a declaration of the table
QualifiedNameOf(func) ==
    (IF func.namespace # None THEN <<func.namespace, "::">> ELSE <<>>)
    \o (IF func.class_name # None THEN <<func.class_name, "::">> ELSE <<>>)
    \o func.name

\* C10: a definition matched by the fallback (not by equal normal forms) has
\* the qualified name of the declaration it is matched to.
C10_FallbackSameQualifiedName ==
    \A k \in 1..Len(match_calls) :
        LET m == match_calls[k]
        IN  (/\ m.result # <<>>
             /\ Normalize(m.result[1]) # Normalize(m.cpp_signature))
            => QualifiedNameOf(DictGet(header_functions, m.result[1])) = m.qualified_name

\* the priorities of the rules of the parser whose criteria all hold for func
MatchingPriorities(func) ==
    {layout_rules[i].priority :
        i \in {j \in 1..Len(layout_rules) : RuleMatches(layout_rules[j], func)}}

\* C11: the priority of the sort key of a matched definition is the least
\* priority of the rules that hold for it, and a definition for which no rule
\* holds has a priority greater than that of every definition for which a
\* rule holds.
C11_MinimumPriority ==
    pc \in {"source_parsed", "reordered", "written"} =>
        \A i \in 1..Len(source_functions) :
            LET f == source_functions[i]
                mine == MatchingPriorities(f)
            IN  IF mine # {}
                THEN \E m \in mine :
                        /\ \A q \in mine : m <= q
                        /\ RulePriority(f, layout_rules) = m
                ELSE \A j \in 1..Len(source_functions) :
                        LET g == source_functions[j]
                        IN  MatchingPriorities(g) # {} =>
                                RulePriority(g, layout_rules)
                                    < RulePriority(f, layout_rules)

\* the place of an access level in the order public, protected, private
AccessRank(access) ==
    CASE access = "public" -> 1
      [] access = "protected" -> 2
      [] access = "private" -> 3
      [] OTHER -> 0

\* C12: with the default rules, a matched definition of a more open access
\* level (public, then protected, then private) stands in the output before
\* every matched definition of a less open one, whatever is static and
\* whatever the names are.
C12_AccessPartitions ==
    (pc = "reordered" /\ layout_rules = DefaultRules) =>
        \A i, j \in 1..Len(source_functions) :
            LET A == source_functions[i]
                B == source_functions[j]
            IN  (/\ AccessRank(A.access_specifier) > 0
                 /\ AccessRank(A.access_specifier) < AccessRank(B.access_specifier))
                => AppearsBefore(reordered_content, A.full_text, B.full_text)

\* the scenario: the default rules, a header that declares the public
\* instance method C::A before the private static method C::B, a source file
\* that defines C::B before C::A; i and j are the places of the definitions
\* of A and of B in source_functions
ScenarioAB(i, j) ==
    /\ layout_rules = DefaultRules
    /\ i \in 1..Len(source_functions)
    /\ j \in 1..Len(source_functions)
    /\ source_functions[i].signature = GetFunctionSignature(PublicA)
    /\ source_functions[j].signature = GetFunctionSignature(PrivateStaticB)
    /\ source_functions[i].access_specifier = "public"
    /\ ~source_functions[i].is_static
    /\ source_functions[j].access_specifier = "private"
    /\ source_functions[j].is_static
    /\ HeaderIndexOf(source_functions[i]) < HeaderIndexOf(source_functions[j])
    /\ source_functions[j].line_end < source_functions[i].line_start

\* C13: in the scenario the definition of A stands before the definition of
\* B in the text reorder_functions returns, and in the file written.
C13_ScenarioAFirst ==
    \A i, j \in 1..MaxDefs :
        ScenarioAB(i, j) =>
            LET A == source_functions[i].full_text
                B == source_functions[j].full_text
            IN  /\ pc = "reordered" =>
                    /\ AppearsBefore(reordered_content, A, B)
                    /\ ~AppearsBefore(reordered_content, B, A)
                /\ pc = "written" =>
                    /\ AppearsBefore(output_file, A, B)
                    /\ ~AppearsBefore(output_file, B, A)

\* C13 witness: the scenario has been run and its output written.
C13_Witness ==
    /\ pc = "written"
    /\ \E i, j \in 1..MaxDefs : ScenarioAB(i, j)

\* the message was given to log_func; the message was printed
Logged(message) == \E i \in 1..Len(log) : log[i] = message

Printed(message) == \E i \in 1..Len(printed) : printed[i] = message

\* one of the two warnings of an empty table or an empty list was logged
WarningLogged == Logged(WarnNoDeclarations) \/ Logged(WarnNoImplementations)

\* the handler of run_processing logged an exception
ErrorLogged == \E i \in 1..Len(log) : log[i].text = "Error processing files"

\* C14: with no declaration in the header or no matched definition, neither
\* command line reorders or writes anything: CppParser.main ends in its
\* warning (return 0) and run_processing returns after its warning, with no
\* error logged, no reordered text and no output file; reordering is reached
\* only with a declaration and a matched definition.
C14_WarningNoReorder ==
    /\ pc \in {"source_parsed", "reordered", "written", "fp_reorder", "fp_output"}
           => (header_functions # <<>> /\ source_functions # <<>>)
    /\ pc = "warned"
           => /\ header_functions = <<>> \/ source_functions = <<>>
              /\ reordered_content = <<>>
              /\ output_file = <<>>
    /\ (pc \in {"fp_returned", "fp_exit"} /\ ~ErrorLogged
            /\ (header_functions = <<>> \/ source_functions = <<>>))
           => WarningLogged
    /\ WarningLogged
           => /\ ~ErrorLogged
              /\ pc \in {"fp_returned", "fp_exit"}
              /\ reordered_content = <<>>
              /\ output_file = <<>>
              /\ exit_status \in {<<>>, <<0>>}

\* C14 witness: run_processing has returned after the warning that no
\* definition of the source file matched a declaration of the header.
C14_Witness ==
    /\ pc = "fp_exit"
    /\ header_functions # <<>>
    /\ Len(match_calls) > 0
    /\ Logged(WarnNoImplementations)

ProgressSteps == <<10, 30, 50, 70, 90, 100>>

Notified(value) == \E i \in 1..Len(progress) : progress[i] = value

\* C20: the values given to update_progress are the first values of 10, 30,
\* 50, 70, 90, 100 in this order; each is given after its stage is done (the
\* metrics logged, the table built and not empty, the definitions matched,
\* the text reordered, the metrics compared, the text written or logged for
\* a dry run); 100 is never given in a run that logged one of the two
\* warnings or an error.
C20_ProgressOrder ==
    /\ Len(progress) <= Len(ProgressSteps)
    /\ progress = SubSeq(ProgressSteps, 1, Len(progress))
    /\ Notified(10) => Logged(LogLine("--- Initial Metrics ---", None))
    /\ Notified(30) => header_functions # <<>>
    /\ Notified(50) => source_functions # <<>>
    /\ Notified(70) =>
           reordered_content =
               ReorderFunctions(source_text, source_functions, function_order,
                                layout_rules)
    /\ Notified(90) => Logged(LogLine("--- Reordered Metrics ---", None))
    /\ Notified(100) =>
           /\ IF dry_run
              THEN Logged(LogLine("reordered_content", None)) /\ output_file = <<>>
              ELSE output_file = reordered_content /\ Logged(Successfully)
           /\ ~WarningLogged
           /\ ~ErrorLogged

\* C20 witness: a run of run_processing that wrote its output has returned
\* with all six values given.
C20_Witness ==
    /\ pc = "fp_exit"
    /\ ~dry_run
    /\ progress = ProgressSteps
    /\ output_file # <<>>

\* C16: the spans of two matched definitions, after the extension over the
\* comment and blank lines above them, share no line.
C16_SpansDisjoint ==
    pc \in {"source_parsed", "reordered", "written"} =>
        \A i, j \in 1..Len(source_functions) :
            i # j =>
                (source_functions[i].line_start..source_functions[i].line_end)
                \cap (source_functions[j].line_start..source_functions[j].line_end)
                = {}

\* a blank line or a line of a comment: a // comment, the first line of a
\* /* */ comment or a later line of it
IsBlankOrCommentLine(line) == LineKind(line) \in {"blank", "slash", "block", "star"}

\* the calls of the matcher that found a declaration, in file order
MatchedCalls ==
    KeepWhere(match_calls, {k \in 1..Len(match_calls) : match_calls[k].result # <<>>})

\* C17: the span of a matched definition of extent s..e is c..e, c being the
\* least line such that the lines c..s-1 are all blank or comment lines, and
\* its text is the lines c..e of the file.
C17_SpanExtension ==
    pc = "source_parsed" =>
        /\ Len(source_functions) = Len(MatchedCalls)
        /\ \A k \in 1..Len(source_functions) :
               LET lines == SplitLines(source_text)
                   s == MatchedCalls[k].start_line
                   e == MatchedCalls[k].end_line
                   cand == {c \in 0..s :
                               \A j \in c..(s - 1) : IsBlankOrCommentLine(lines[j + 1])}
                   c == CHOOSE c \in cand : \A d \in cand : c <= d
               IN  /\ source_functions[k].line_start = c
                   /\ source_functions[k].line_end = e
                   /\ source_functions[k].full_text
                          = JoinLines(SubSeq(lines, c + 1, e + 1))

\* words that are type keywords, not parameter names
TypeKeywords ==
    {"int", "long", "unsigned", "signed", "short", "char", "float", "double",
     "bool", "void"}

\* the type of a parameter: const and volatile go, and the last of two or
\* more whitespace-separated tokens goes when it is a word that is no type
\* keyword
TypeOfParameter(t) ==
    LET u == Strip(RemoveWord(Strip(RemoveWord(Strip(t), "const")), "volatile"))
    IN  IF u # <<>> /\ IsWordTok(u[Len(u)]) /\ u[Len(u)] \notin TypeKeywords
        THEN Strip(DropTrailingName(u))
        ELSE u

\* C18: two parameter lists are judged equivalent only if they have as many
\* parameters and the types of their parameters are pairwise equal, a last
\* token being dropped as a name only when it is no type keyword: "unsigned
\* int" and "unsigned long" are not equivalent.
C18_TypeKeywordKept ==
    (norm_pc = "compared" /\ params_equal) =>
        LET params1_list == IF norm_a # <<>> THEN SplitComma(norm_a) ELSE <<>>
            params2_list == IF norm_b # <<>> THEN SplitComma(norm_b) ELSE <<>>
        IN  /\ Len(params1_list) = Len(params2_list)
            /\ \A i \in 1..Len(params1_list) :
                   TypeOfParameter(params1_list[i]) = TypeOfParameter(params2_list[i])

\* no configuration is given, the file does not exist, or loading it fails:
\* it is not JSON, has no "rules", or one of its rules lacks a key
ConfigUnusable(config) ==
    \/ ~config.given
    \/ ~config.exists
    \/ ~config.valid_json
    \/ ~config.has_rules
    \/ \E i \in 1..Len(config.rules) :
           ~config.rules[i].has_priority \/ ~config.rules[i].has_criteria

\* C19: once the parser is constructed, and at every later step of the run,
\* its rule list is the whole default list when the configuration is not
\* given, does not exist or fails to load, and the list of the file when it
\* loads; construction always ends.
C19_DefaultRulesOnFailure ==
    pc # "construct" =>
        IF ConfigUnusable(layout_config)
        THEN layout_rules = DefaultRules
        ELSE layout_rules =
                 [i \in 1..Len(layout_config.rules) |->
                     LayoutRule(layout_config.rules[i].priority,
                                layout_config.rules[i].criteria)]

\* C19 witness: the second rule of the file lacks a key, the first does not;
\* the run has gone through parsing and reordering.
C19_Witness ==
    /\ pc = "written"
    /\ layout_config.given /\ layout_config.exists
    /\ layout_config.valid_json /\ layout_config.has_rules
    /\ Len(layout_config.rules) = 2
    /\ layout_config.rules[1].has_priority /\ layout_config.rules[1].has_criteria
    /\ ~layout_config.rules[2].has_priority
    /\ layout_rules = DefaultRules

====
